---- MODULE Spec2Model ----
(***************************************************************************)
(* A model of youtrack_time_importer: the Row classes of                   *)
(* src/youtrack_time_importer/__init__.py and row.py, and the importer     *)
(* driver loop of __init__.py (the __main__ block).                        *)
(*                                                                         *)
(* Python values are tagged records: None, False, PyStr(<<chars>>),        *)
(* PyInt(n), an Issue object.  Text is a sequence of one-character         *)
(* strings, so that searching, splitting, int() and str() are computed     *)
(* character by character as the code's library calls compute them.        *)
(***************************************************************************)
EXTENDS Integers, Sequences, FiniteSets, TLC

VARIABLES
    rows,        \* driver: the records csv.DictReader yields (the input file)
    idx,         \* driver: how many rows the for loop has taken
    pc,          \* position of the running script
    ignore,      \* driver: the local `ignore` of the current row
    _issue,      \* Row._issue of the current row
    response,    \* driver: the local `response` (last answer typed)
    workItems,   \* tracker: the work items it holds, in creation order
    count,       \* driver: `count`
    total,       \* driver: `total`
    run,         \* driver: number of the current run over the same input
    created,     \* tracker: the work items it created in the current run
    calls,       \* the tracker calls made for the current row (a log)
    rowState,    \* driver: what became of the current row
    input,       \* the argument of a Row method evaluated on its own
    result       \* what that method returned

vars == <<rows, idx, pc, ignore, _issue, response, workItems, count, total,
          run, created, calls, rowState, input, result>>

-----------------------------------------------------------------------------
(* Bounds of the model.                                                    *)

MaxRows == 2
MaxRuns == 2
MaxHours == 2
MaxPad == 1
MaxReads == 4
MaxItems == 2

-----------------------------------------------------------------------------
(* Python values.                                                          *)

None == [t |-> "None"]
False == [t |-> "bool", v |-> FALSE]
True == [t |-> "bool", v |-> TRUE]
PyStr(s) == [t |-> "str", v |-> s]
PyInt(n) == [t |-> "int", v |-> n]
PyBool(b) == IF b THEN True ELSE False

\* Python's truth value of an object.
Truthy(x) ==
    CASE x.t = "None" -> FALSE
      [] x.t = "bool" -> x.v
      [] x.t = "str" -> x.v # <<>>
      [] x.t = "int" -> x.v # 0
      [] OTHER -> TRUE

UpperCase == <<"A","B","C","D","E","F","G","H","I","J","K","L","M",
               "N","O","P","Q","R","S","T","U","V","W","X","Y","Z">>
LowerCase == <<"a","b","c","d","e","f","g","h","i","j","k","l","m",
               "n","o","p","q","r","s","t","u","v","w","x","y","z">>
Digits == <<"0","1","2","3","4","5","6","7","8","9">>

IsDigit(c) == \E i \in 1..10 : Digits[i] = c
IsAlpha(c) == \E i \in 1..26 : UpperCase[i] = c \/ LowerCase[i] = c
IsAlnum(c) == IsDigit(c) \/ IsAlpha(c)
DigitVal(c) == (CHOOSE i \in 1..10 : Digits[i] = c) - 1
lower(c) == IF \E i \in 1..26 : UpperCase[i] = c
            THEN LowerCase[CHOOSE i \in 1..26 : UpperCase[i] = c]
            ELSE c

\* s[a..b] as Python's slice s[a-1:b].
Slice(s, a, b) == [i \in 1..(b - a + 1) |-> s[a + i - 1]]

\* `pat in s` for strings: pat occurs in s as a substring.
Contains(s, pat) ==
    \E i \in 1..(Len(s) - Len(pat) + 1) :
        \A k \in 1..Len(pat) : s[i + k - 1] = pat[k]

\* re.search(pat, s, re.IGNORECASE) for a pattern of plain letters.
SearchIgnoreCase(s, pat) ==
    \E i \in 1..(Len(s) - Len(pat) + 1) :
        \A k \in 1..Len(pat) : lower(s[i + k - 1]) = lower(pat[k])

\* str.split(sep) for a one-character separator.
RECURSIVE split(_, _)
split(s, sep) ==
    IF \E i \in 1..Len(s) : s[i] = sep
    THEN LET i == CHOOSE i \in 1..Len(s) :
                      s[i] = sep /\ \A j \in 1..(i - 1) : s[j] # sep
         IN  <<Slice(s, 1, i - 1)>> \o split(Slice(s, i + 1, Len(s)), sep)
    ELSE <<s>>

\* int(s) for a string of decimal digits.
RECURSIVE int(_)
int(s) ==
    IF Len(s) = 0 THEN 0
    ELSE int(Slice(s, 1, Len(s) - 1)) * 10 + DigitVal(s[Len(s)])

\* str(n) for an integer: its decimal digits.
RECURSIVE IntDigits(_)
IntDigits(n) ==
    IF n < 10 THEN <<Digits[n + 1]>>
    ELSE IntDigits(n \div 10) \o <<Digits[(n % 10) + 1]>>

\* str(x) for None, a string or an integer.
str(x) ==
    CASE x.t = "None" -> <<"N","o","n","e">>
      [] x.t = "str" -> x.v
      [] x.t = "int" -> IF x.v < 0 THEN <<"-">> \o IntDigits(0 - x.v)
                        ELSE IntDigits(x.v)

-----------------------------------------------------------------------------
(* The tracker (youtrack.connection.Connection), as the importer sees it.  *)

\* The identifiers of the issues the tracker holds.
TrackerIssues == {<<"A","-","1">>, <<"A","-","2">>}

Issue(id) == [t |-> "Issue", id |-> id]
YouTrackException == [t |-> "YouTrackException"]

\* What connection.get_issue(id) may answer: the issue, nothing, or a
\* YouTrackException (the issue is unknown, or the tracker is unreachable).
GetIssueReplies(id) ==
    IF id \in TrackerIssues THEN {Issue(id), YouTrackException}
    ELSE {None, YouTrackException}

\* The work item the tracker keeps for createWorkItem(issue_id, timeslip) and
\* returns from getWorkItems: its three fields rendered as strings.
StoredWorkItem(issue_id, timeslip) ==
    [issue |-> issue_id,
     duration |-> PyStr(str(timeslip.duration)),
     date |-> PyStr(str(timeslip.date)),
     description |-> PyStr(str(timeslip.description))]

\* connection.getWorkItems(issue_id) on a tracker holding `items`.
getWorkItems(items, issue_id) ==
    SelectSeq(items, LAMBDA w : w.issue = issue_id)

-----------------------------------------------------------------------------
(* Row, ManicTimeRow, TogglRow (src/youtrack_time_importer/__init__.py)    *)
(* and TogglAPIRow (src/youtrack_time_importer/row.py).  A row is          *)
(* [cls |-> its class, data |-> its record]; the record is a function      *)
(* from field names to values.                                             *)

get_field(row, field_key) ==
    IF field_key \in DOMAIN row.data THEN row.data[field_key] ELSE None

get_tags(row) ==
    IF row.cls = "TogglRow" THEN get_field(row, "Tags")
    ELSE get_field(row, "Name")

get_description(row) ==
    IF row.cls = "TogglRow" THEN get_field(row, "Description")
    ELSE get_field(row, "Notes")

get_issue_string(row) ==
    IF row.cls = "TogglRow"
    THEN PyStr(get_description(row).v \o <<" ">> \o get_tags(row).v)
    ELSE get_tags(row)

\* "ignore" in self.data.get("tags") (row.py, TogglAPIRow).
TogglAPIRow_is_ignored(row) ==
    Contains(get_field(row, "tags").v, <<"i","g","n","o","r","e">>)

\* re.search("ignore", self.get_tags(), re.IGNORECASE) (Row.is_ignored).
Row_is_ignored(row) ==
    SearchIgnoreCase(get_tags(row).v, <<"i","g","n","o","r","e">>)

is_ignored(row) ==
    IF row.cls = "TogglAPIRow" THEN TogglAPIRow_is_ignored(row)
    ELSE Row_is_ignored(row)

\* Whether the pattern [a-zA-Z0-9]*\-[0-9]+ matches s at position i: the
\* letters and digits from i run up to a "-" that a digit follows.
DashAfter(s, i) ==
    CHOOSE j \in i..(Len(s) + 1) :
        /\ \A k \in i..(j - 1) : IsAlnum(s[k])
        /\ (j = Len(s) + 1 \/ ~IsAlnum(s[j]))

MatchesAt(s, i) ==
    LET j == DashAfter(s, i)
    IN  j < Len(s) /\ s[j] = "-" /\ IsDigit(s[j + 1])

MatchEnd(s, i) ==
    LET j == DashAfter(s, i)
    IN  CHOOSE e \in (j + 1)..Len(s) :
            /\ \A k \in (j + 1)..e : IsDigit(s[k])
            /\ (e = Len(s) \/ ~IsDigit(s[e + 1]))

get_issue_id_from_tags(issue_string) ==
    IF ~Truthy(issue_string) THEN None
    ELSE LET s == issue_string.v
         IN  IF \E i \in 1..Len(s) : MatchesAt(s, i)
             THEN LET i == CHOOSE i \in 1..Len(s) :
                               MatchesAt(s, i) /\ \A k \in 1..(i - 1) : ~MatchesAt(s, k)
                  IN  PyStr(Slice(s, i, MatchEnd(s, i)))
             ELSE None

\* Whether reading the property Row.issue asks the tracker (line 22).
IssueIsFetched(self_issue) == self_issue.t # "Issue"

\* The identifier the property Row.issue passes to connection.get_issue.
RequestedIssueId(row) == str(get_issue_id_from_tags(get_issue_string(row)))

\* The property Row.issue: the new value of self._issue, which is also the
\* value returned, when the tracker answers `reply` if asked.
issue(self_issue, reply) ==
    IF IssueIsFetched(self_issue)
    THEN IF reply.t = "YouTrackException" THEN False
         ELSE IF Truthy(reply) THEN reply ELSE False
    ELSE self_issue

issue_exists(self_issue, reply) == issue(self_issue, reply).t = "Issue"

get_issue_id(row, self_issue, reply) ==
    LET i == issue(self_issue, reply)
    IN  IF i.t = "Issue" THEN PyStr(i.id)
        ELSE get_issue_id_from_tags(get_issue_string(row))

get_project_id_from_tags(row, self_issue, reply) ==
    LET issue_id == get_issue_id(row, self_issue, reply)
    IN  IF Truthy(issue_id) THEN PyStr(split(issue_id.v, "-")[1]) ELSE None

get_duration(row) == get_field(row, "Duration")

\* None is rendered as the empty sequence: str.split never returns one.
get_duration_split(row) ==
    LET duration == get_duration(row)
    IN  IF Truthy(duration) THEN split(duration.v, ":") ELSE <<>>

RoundsUpAbove30(seconds) == seconds > 30

\* int(duration[2]) >= 30 (line 163).
RoundsUp(seconds) == seconds >= 30

get_duration_as_minutes(row) ==
    LET duration == get_duration_split(row)
    IN  IF duration = <<>> THEN None
        ELSE PyInt(int(duration[1]) * 60 + int(duration[2])
                   + (IF RoundsUp(int(duration[3])) THEN 1 ELSE 0))

HoursDropMinutes(hours, time_string) ==
    IF int(hours) > 0 THEN hours \o <<"h">> ELSE time_string

\* The hour part of get_duration_as_string (lines 152-153).
WithHours(hours, time_string) ==
    IF int(hours) > 0 THEN hours \o <<"h">> \o time_string ELSE time_string

get_duration_as_string(row) ==
    LET duration == get_duration_split(row)
    IN  IF duration = <<>> THEN None
        ELSE LET d1 == IF int(duration[3]) >= 30
                       THEN IntDigits(int(duration[2]) + 1)
                       ELSE duration[2]
                 over == int(d1) > 59
                 d0 == IF int(d1) > 0 /\ over
                       THEN IntDigits(int(duration[1]) + 1)
                       ELSE duration[1]
                 time_string == IF int(d1) > 0 /\ ~over
                                THEN d1 \o <<"m">> ELSE <<>>
             IN  PyStr(WithHours(d0, time_string))

get_start(row) ==
    IF row.cls = "TogglRow"
    THEN PyStr(get_field(row, "Start date").v \o <<" ">>
               \o get_field(row, "Start time").v)
    ELSE get_field(row, "Start")

\* datetime.datetime.strptime(date_string, self.datetime_format) for
\* "%d/%m/%Y %H:%M:%S" (Row, ManicTimeRow) and "%Y-%m-%d %H:%M:%S" (TogglRow).
strptime(row, date_string) ==
    LET parts == split(date_string, " ")
        hms == split(parts[2], ":")
        time == [H |-> int(hms[1]), M |-> int(hms[2]), S |-> int(hms[3])]
    IN  IF row.cls = "TogglRow"
        THEN LET ymd == split(parts[1], "-")
             IN  time @@ [Y |-> int(ymd[1]), m |-> int(ymd[2]), d |-> int(ymd[3])]
        ELSE LET dmy == split(parts[1], "/")
             IN  time @@ [Y |-> int(dmy[3]), m |-> int(dmy[2]), d |-> int(dmy[1])]

get_date_object(row) ==
    LET date_string == get_start(row)
    IN  IF Truthy(date_string)
        THEN [t |-> "datetime", v |-> strptime(row, date_string.v)]
        ELSE None

\* The days from 1970-01-01 to the date (dt - epoch, in days).
DaysSinceEpoch(dt) ==
    LET y == IF dt.m <= 2 THEN dt.Y - 1 ELSE dt.Y
        era == y \div 400
        yoe == y - era * 400
        mp == (dt.m + 9) % 12
        doy == (153 * mp + 2) \div 5 + dt.d - 1
        doe == yoe * 365 + yoe \div 4 - yoe \div 100 + doy
    IN  era * 146097 + doe - 719468

get_date_as_unix_time(row) ==
    LET dt == get_date_object(row)
    IN  IF dt.t = "datetime"
        THEN PyInt(DaysSinceEpoch(dt.v) * 86400
                   + dt.v.H * 3600 + dt.v.M * 60 + dt.v.S)
        ELSE None

get_date_as_unix_time_milliseconds(row) ==
    LET epoch == get_date_as_unix_time(row)
    IN  IF Truthy(epoch) THEN PyInt(epoch.v * 1000) ELSE None

get_date_string(row) ==
    IF get_date_object(row).t = "datetime" THEN [t |-> "str"] ELSE None

\* Whether timeslip_string raises a TypeError: " / ".join(string_list) does
\* when one of the three parts is None.  (The text itself is only shown.)
timeslip_string_raises(row) ==
    \/ get_date_string(row) = None
    \/ get_duration_as_string(row) = None
    \/ get_description(row) = None

create_timeslip(row) ==
    [description |-> get_description(row),
     date |-> get_date_as_unix_time_milliseconds(row),
     duration |-> get_duration_as_minutes(row)]

MatchesWithoutDescription(row, timeslip) ==
    /\ timeslip.duration = PyStr(str(get_duration_as_minutes(row)))
    /\ timeslip.date = PyStr(str(get_date_as_unix_time_milliseconds(row)))

\* The condition of the loop of timeslip_exists (lines 220-222).
TimeslipMatches(row, timeslip) ==
    /\ timeslip.duration = PyStr(str(get_duration_as_minutes(row)))
    /\ timeslip.date = PyStr(str(get_date_as_unix_time_milliseconds(row)))
    /\ timeslip.description = get_description(row)

\* timeslip_exists, given the answer `timeslips` of get_timeslips().
RECURSIVE timeslip_exists(_, _)
timeslip_exists(row, timeslips) ==
    IF timeslips = <<>> THEN FALSE
    ELSE IF TimeslipMatches(row, Head(timeslips)) THEN TRUE
         ELSE timeslip_exists(row, Tail(timeslips))

-----------------------------------------------------------------------------
(* Row methods evaluated on their own: `input` holds the row (and what the *)
(* tracker answers), `result` what the method returned.                    *)

driverVars == <<rows, idx, ignore, _issue, response, workItems, count, total,
                run, created, calls, rowState>>

NoDriver ==
    /\ rows = <<>> /\ idx = 0 /\ ignore = FALSE /\ _issue = None
    /\ response = <<>> /\ workItems = <<>> /\ count = 0 /\ total = 0
    /\ run = 0 /\ created = 0 /\ calls = <<>> /\ rowState = "new"

TwoDigits(n) == IF n < 10 THEN <<"0">> \o IntDigits(n) ELSE IntDigits(n)

\* The text H:M:S, the minutes and seconds in two digits when `pad`.
DurationText(h, m, s, pad) ==
    IntDigits(h) \o <<":">> \o (IF pad THEN TwoDigits(m) ELSE IntDigits(m))
        \o <<":">> \o (IF pad THEN TwoDigits(s) ELSE IntDigits(s))

ManicTimeRow(name, duration, start, notes) ==
    [cls |-> "ManicTimeRow",
     data |-> [Name |-> name, Duration |-> duration, Start |-> start,
               Notes |-> notes]]

DurationRow(i) ==
    ManicTimeRow(PyStr(<<>>), PyStr(DurationText(i.h, i.m, i.s, i.pad)),
                 None, None)

InitDuration ==
    /\ NoDriver
    /\ pc = "call"
    /\ input \in [h : 0..MaxHours, m : 0..59, s : 0..59, pad : BOOLEAN]
    /\ result = None

ConvertDuration ==
    /\ pc = "call"
    /\ pc' = "returned"
    /\ result' = [minutes |-> get_duration_as_minutes(DurationRow(input)),
                  string |-> get_duration_as_string(DurationRow(input))]
    /\ UNCHANGED <<input, driverVars>>

NextDuration == ConvertDuration

SpecDuration == InitDuration /\ [][NextDuration]_vars

\* The number a text "<h>h<m>m", "<h>h", "<m>m" or "" shows, in minutes.
ShownMinutes(text) ==
    LET afterH == IF \E i \in 1..Len(text) : text[i] = "h"
                  THEN split(text, "h") ELSE <<<<>>, text>>
        minutes == split(afterH[2], "m")[1]
    IN  int(afterH[1]) * 60 + int(minutes)

\* C6: for every duration H:M:S with M and S in 0..59, get_duration_as_minutes
\* returns H*60+M when S < 30 and H*60+M+1 when S >= 30, and the hours and
\* minutes get_duration_as_string shows add up to the same number.
C6_DurationRounding ==
    pc = "returned" =>
        /\ result.minutes = PyInt(input.h * 60 + input.m
                                  + (IF input.s >= 30 THEN 1 ELSE 0))
        /\ result.string.t = "str"
        /\ ShownMinutes(result.string.v) = result.minutes.v

\* C6's case: a duration whose rounded minutes overflow into the hour.
C6_Witness ==
    /\ pc = "returned"
    /\ input.m = 59 /\ input.s = 30 /\ input.h = 1
    /\ result.string = PyStr(<<"2","h">>)
    /\ result.minutes = PyInt(120)

IsOneFortyFiveTen ==
    DurationText(input.h, input.m, input.s, input.pad)
        = <<"1",":","4","5",":","1","0">>

\* C7 as stated: for "1:45:10" the minutes are 106 and the string "1h45m".
C7_Original ==
    (pc = "returned" /\ IsOneFortyFiveTen) =>
        /\ result.minutes = PyInt(106)
        /\ result.string = PyStr(<<"1","h","4","5","m">>)

\* C7, amended: for "1:45:10" the minutes are 105 (the 10 seconds do not
\* round up) and the string is "1h45m".
C7_Amended ==
    (pc = "returned" /\ IsOneFortyFiveTen) =>
        /\ result.minutes = PyInt(105)
        /\ result.string = PyStr(<<"1","h","4","5","m">>)

C7_Witness ==
    /\ pc = "returned"
    /\ IsOneFortyFiveTen
    /\ result.minutes = PyInt(105)

-----------------------------------------------------------------------------
(* is_ignored of each row class.                                           *)

IgnoreWords ==
    {<<"i","g","n","o","r","e">>, <<"I","g","n","o","r","e">>,
     <<"I","G","N","O","R","E">>, <<"i","g","N","O","r","e">>,
     <<"i","g","n","o","r">>, <<"A","-","1">>, <<>>}

RECURSIVE SeqsUpTo(_, _)
SeqsUpTo(S, n) ==
    IF n = 0 THEN {<<>>}
    ELSE LET shorter == SeqsUpTo(S, n - 1)
         IN  shorter \cup {Append(q, x) : q \in shorter, x \in S}

\* Tags texts: a word with up to MaxPad characters before and after it.
TagTexts ==
    {a \o w \o b : a \in SeqsUpTo({"x", " "}, MaxPad), w \in IgnoreWords,
                   b \in SeqsUpTo({"x", " "}, MaxPad)}

RowClasses == {"ManicTimeRow", "TogglRow", "TogglAPIRow"}

\* A row of class cls whose tags text is `tags`.
TaggedRow(cls, tags) ==
    CASE cls = "TogglRow" ->
            [cls |-> cls, data |-> [Tags |-> PyStr(tags), Description |-> PyStr(<<>>)]]
      [] cls = "TogglAPIRow" ->
            [cls |-> cls, data |-> [tags |-> PyStr(tags), description |-> PyStr(<<>>)]]
      [] OTHER ->
            [cls |-> cls, data |-> [Name |-> PyStr(tags), Notes |-> PyStr(<<>>)]]

InitIgnored ==
    /\ NoDriver
    /\ pc = "call"
    /\ input \in [cls : RowClasses, tags : TagTexts]
    /\ result = None

EvaluateIsIgnored ==
    /\ pc = "call"
    /\ pc' = "returned"
    /\ result' = PyBool(is_ignored(TaggedRow(input.cls, input.tags)))
    /\ UNCHANGED <<input, driverVars>>

NextIgnored == EvaluateIsIgnored

SpecIgnored == InitIgnored /\ [][NextIgnored]_vars

Lowered(text) == [k \in 1..Len(text) |-> lower(text[k])]

\* C8: for every row class, is_ignored() is true if and only if the tags
\* text contains "ignore" in any letter case.
C8_IgnoredAnyCase ==
    pc = "returned" =>
        result = PyBool(Contains(Lowered(input.tags), <<"i","g","n","o","r","e">>))

-----------------------------------------------------------------------------
(* timeslip_exists against what the tracker returns.                       *)

SampleDurations ==
    {<<"0",":","3","0",":","0","0">>, <<"0",":","2","9",":","4","0">>,
     <<"0",":","3","0",":","3","0">>}

\* 1970-01-02 09:00:00 (118800 s after the epoch) and the epoch itself.
SampleStarts ==
    {PyStr(<<"0","2","/","0","1","/","1","9","7","0"," ",
             "0","9",":","0","0",":","0","0">>),
     PyStr(<<"0","1","/","0","1","/","1","9","7","0"," ",
             "0","0",":","0","0",":","0","0">>)}

SampleNotes == {PyStr(<<"s">>), PyStr(<<>>), None}

\* Work items as the tracker returns them: three strings.
ReturnedItems ==
    [issue : {<<"A","-","1">>},
     duration : {PyStr(<<"3","0">>), PyStr(<<"3","1">>)},
     date : {PyStr(<<"1","1","8","8","0","0","0","0","0">>),
             PyStr(<<"N","o","n","e">>)},
     description : {PyStr(<<"s">>), PyStr(<<>>), PyStr(<<"N","o","n","e">>)}]

InitExists ==
    /\ NoDriver
    /\ pc = "call"
    /\ \E d \in SampleDurations, st \in SampleStarts, n \in SampleNotes,
          ts \in SeqsUpTo(ReturnedItems, MaxItems) :
            input = [row |-> ManicTimeRow(PyStr(<<"A","-","1">>), PyStr(d), st, n),
                     timeslips |-> ts]
    /\ result = None

EvaluateTimeslipExists ==
    /\ pc = "call"
    /\ pc' = "returned"
    /\ result' = PyBool(timeslip_exists(input.row, input.timeslips))
    /\ UNCHANGED <<input, driverVars>>

NextExists == EvaluateTimeslipExists

SpecExists == InitExists /\ [][NextExists]_vars

\* C4: timeslip_exists() is true if and only if some work item the tracker
\* returned has duration equal to the string form of the row's minutes, date
\* equal to the string form of the row's epoch milliseconds and description
\* equal to the row's description; it is false on an empty answer.
C4_TimeslipExistsIff ==
    pc = "returned" =>
        /\ result.v =
             (\E i \in 1..Len(input.timeslips) :
                 LET w == input.timeslips[i]
                 IN  /\ w.duration.v = str(get_duration_as_minutes(input.row))
                     /\ w.date.v = str(get_date_as_unix_time_milliseconds(input.row))
                     /\ w.description = get_description(input.row))
        /\ (input.timeslips = <<>> => result = False)

\* C4's case: a second work item matches after a first that differs only in
\* its description.
C4_Witness ==
    /\ pc = "returned"
    /\ Len(input.timeslips) = 2
    /\ result = True
    /\ ~TimeslipMatches(input.row, input.timeslips[1])
    /\ MatchesWithoutDescription(input.row, input.timeslips[1])

-----------------------------------------------------------------------------
(* The property Row.issue of one Row, read again and again.                *)

SampleNames ==
    {<<"A","-","1">>, <<"x"," ","A","-","2">>, <<"B","-","7">>, <<"m","t","g">>}

IssueRow(name) == ManicTimeRow(PyStr(name), None, None, None)

InitIssue ==
    /\ rows = <<>> /\ idx = 0 /\ ignore = FALSE /\ response = <<>>
    /\ workItems = <<>> /\ total = 0 /\ run = 0 /\ created = 0
    /\ rowState = "new"
    /\ pc = "reading"
    /\ input \in {IssueRow(n) : n \in SampleNames}
    /\ _issue = None
    /\ calls = <<>>
    /\ count = 0
    /\ result = None

\* One read of the property: what it leaves in _issue and in the call log.
ReadProperty(reply) ==
    /\ pc = "reading"
    /\ count < MaxReads
    /\ count' = count + 1
    /\ _issue' = issue(_issue, reply)
    /\ calls' = IF IssueIsFetched(_issue)
                THEN Append(calls, [op |-> "get_issue", id |-> RequestedIssueId(input)])
                ELSE calls
    /\ UNCHANGED <<rows, idx, pc, ignore, response, workItems, total, run,
                   created, rowState, input>>

ReadIssue ==
    \E reply \in GetIssueReplies(RequestedIssueId(input)) :
        /\ ReadProperty(reply)
        /\ result' = issue(_issue, reply)

ReadIssueExists ==
    \E reply \in GetIssueReplies(RequestedIssueId(input)) :
        /\ ReadProperty(reply)
        /\ result' = PyBool(issue_exists(_issue, reply))

ReadGetIssueId ==
    \E reply \in GetIssueReplies(RequestedIssueId(input)) :
        /\ ReadProperty(reply)
        /\ result' = get_issue_id(input, _issue, reply)

ReadGetProjectIdFromTags ==
    \E reply \in GetIssueReplies(RequestedIssueId(input)) :
        /\ ReadProperty(reply)
        /\ result' = get_project_id_from_tags(input, _issue, reply)

NextIssue ==
    \/ ReadIssue
    \/ ReadIssueExists
    \/ ReadGetIssueId
    \/ ReadGetProjectIdFromTags

SpecIssue == InitIssue /\ [][NextIssue]_vars

\* C9: over any sequence of reads of one Row's issue, the tracker's get_issue
\* is called at most once, whether the first lookup found the issue or not.
C9_GetIssueCalledOnce == Len(calls) <= 1

-----------------------------------------------------------------------------
(* The importer driver: the __main__ block of __init__.py, one action per  *)
(* stretch of code between two inputs (an answer typed, a tracker reply).  *)

DriverNames ==
    {<<"A","-","1">>, <<"B","-","7">>, <<"m","t","g">>,
     <<"I","g","n","o","r","e"," ","A","-","1">>,
     <<"B","-","7"," ","I","G","N","O","R","E">>}

DriverStart ==
    PyStr(<<"0","2","/","0","1","/","1","9","7","0"," ",
            "0","9",":","0","0",":","0","0">>)

DriverRow(name, notes) ==
    ManicTimeRow(PyStr(name), PyStr(<<"0",":","3","0",":","0","0">>),
                 DriverStart, notes)

\* The records of the input file; one has no Notes value.
DriverRows ==
    {DriverRow(n, PyStr(<<"s">>)) : n \in DriverNames}
        \cup {DriverRow(<<"A","-","1">>, None), DriverRow(<<"B","-","7">>, None)}

\* What is typed at the first prompt, and at the later ones.
YesNoAnswers == {<<"n">>, <<" ","n">>, <<"y">>}
IdAnswers == {<<>>, <<"A","-","1">>}

\* str.strip(): without the spaces at both ends.
RECURSIVE strip(_)
strip(s) ==
    IF s # <<>> /\ Head(s) = " " THEN strip(Tail(s))
    ELSE IF s # <<>> /\ s[Len(s)] = " " THEN strip(Slice(s, 1, Len(s) - 1))
    ELSE s

\* The row the for loop is at.
row == rows[idx]

\* The replies the tracker may give to a read of row.issue: one that is
\* not asked for stands for no call.
IssueReplies(self_issue) ==
    IF IssueIsFetched(self_issue) THEN GetIssueReplies(RequestedIssueId(row))
    ELSE {None}

SearchCaseSensitive(r) == Contains(get_tags(r).v, <<"i","g","n","o","r","e">>)

\* re.search('ignore', row.get_tags(), re.IGNORECASE) (line 306).
DriverIgnores(r) == SearchIgnoreCase(get_tags(r).v, <<"i","g","n","o","r","e">>)

Init ==
    /\ rows \in SeqsUpTo(DriverRows, MaxRows) \ {<<>>}
    /\ idx = 0
    /\ pc = "connect"
    /\ ignore = FALSE
    /\ _issue = None
    /\ response = <<>>
    /\ workItems = <<>>
    /\ count = 0
    /\ total = 0
    /\ run = 1
    /\ created = 0
    /\ calls = <<>>
    /\ rowState = "new"
    /\ input = None
    /\ result = None

\* Lines 288-300: Connection(...) and getUser succeed, or exit(...).
Connect ==
    /\ pc = "connect"
    /\ \E ok \in BOOLEAN : pc' = IF ok THEN "for" ELSE "exit"
    /\ count' = 0
    /\ total' = 0
    /\ UNCHANGED <<rows, idx, ignore, _issue, response, workItems, run,
                   created, calls, rowState, input, result>>

\* Lines 301-307: the next row, and whether its tags say to ignore it.
TakeRow ==
    /\ pc = "for"
    /\ idx < Len(rows)
    /\ idx' = idx + 1
    /\ total' = total + 1
    /\ _issue' = None
    /\ ignore' = DriverIgnores(rows[idx + 1])
    /\ pc' = IF ignore' THEN "ignored" ELSE "lookup"
    /\ calls' = <<>>
    /\ rowState' = "new"
    /\ UNCHANGED <<rows, response, workItems, count, run, created, input,
                   result>>

\* Lines 309-310: not row.get_issue_id()
\*                or (row.get_issue_id() and not row.issue_exists()).
Lookup ==
    /\ pc = "lookup"
    /\ \E r1 \in IssueReplies(_issue) :
        LET c1 == issue(_issue, r1)
        IN  IF ~Truthy(get_issue_id(row, _issue, r1))
            THEN /\ _issue' = c1
                 /\ pc' = "prompt1"
            ELSE \E r2 \in IssueReplies(c1) :
                    LET c2 == issue(c1, r2)
                    IN  IF ~Truthy(get_issue_id(row, c1, r2))
                        THEN /\ _issue' = c2
                             /\ pc' = "exists"
                        ELSE \E r3 \in IssueReplies(c2) :
                                /\ _issue' = issue(c2, r3)
                                /\ pc' = IF ~issue_exists(c2, r3)
                                         THEN "prompt1" ELSE "exists"
    /\ UNCHANGED <<rows, idx, ignore, response, workItems, count, total, run,
                   created, calls, rowState, input, result>>

\* Lines 311-314: "Add to an issue? (y/n)".
Prompt1 ==
    /\ pc = "prompt1"
    /\ \E answer \in YesNoAnswers :
        /\ response' = answer
        /\ ignore' = (strip(answer) = <<"n">>)
        /\ pc' = IF ignore' THEN "ignored" ELSE "prompt2"
    /\ UNCHANGED <<rows, idx, _issue, workItems, count, total, run,
                   created, calls, rowState, input, result>>

\* Lines 315-316: "Enter Issue Id for <timeslip_string>".
Prompt2 ==
    /\ pc = "prompt2"
    /\ IF timeslip_string_raises(row)
       THEN pc' = "TypeError" /\ UNCHANGED response
       ELSE /\ pc' = "while"
            /\ \E answer \in IdAnswers : response' = answer
    /\ UNCHANGED <<rows, idx, ignore, _issue, workItems, count, total, run,
                   created, calls, rowState, input, result>>

\* Lines 317-323: one turn of the while loop.
While ==
    /\ pc = "while"
    /\ IF response = <<>>
       THEN /\ ignore' = TRUE
            /\ pc' = "ignored"
            /\ UNCHANGED <<_issue, response>>
       ELSE \E r1 \in IssueReplies(_issue) :
                LET c1 == issue(_issue, r1)
                IN  IF Truthy(get_issue_id(row, _issue, r1))
                    THEN /\ _issue' = c1
                         /\ pc' = "exists"
                         /\ UNCHANGED <<ignore, response>>
                    ELSE \E r2 \in IssueReplies(c1) :
                            LET c2 == issue(c1, r2)
                            IN  IF ~Truthy(get_issue_id(row, c1, r2))
                                THEN /\ _issue' = c2
                                     /\ pc' = "while"
                                     /\ \E answer \in IdAnswers : response' = answer
                                     /\ UNCHANGED ignore
                                ELSE \E r3 \in IssueReplies(c2) :
                                        /\ _issue' = issue(c2, r3)
                                        /\ UNCHANGED ignore
                                        /\ IF ~issue_exists(c2, r3)
                                           THEN pc' = "exists" /\ UNCHANGED response
                                           ELSE /\ pc' = "while"
                                                /\ \E answer \in IdAnswers :
                                                      response' = answer
    /\ UNCHANGED <<rows, idx, workItems, count, total, run, created, calls,
                   rowState, input, result>>

\* Line 334: print("  Timeslip ignored").
PrintIgnored ==
    /\ pc = "ignored"
    /\ rowState' = "ignored"
    /\ pc' = "for"
    /\ UNCHANGED <<rows, idx, ignore, _issue, response, workItems, count,
                   total, run, created, calls, input, result>>

\* What the tracker may answer to getWorkItems(id): the work items it holds
\* for the issue, or a YouTrackException.
GetWorkItemsReplies(id) == {"items", "YouTrackException"}

\* What the tracker may answer to createWorkItem(id, timeslip): the item is
\* created (on an issue it holds), a failure is returned, or a
\* YouTrackException.
CreateWorkItemReplies(id) ==
    IF id \in TrackerIssues THEN {"created", "failure", "YouTrackException"}
    ELSE {"failure", "YouTrackException"}

Call(op, id, reply) ==
    [op |-> op, id |-> id, reply |-> reply]

\* Lines 325-326: row.timeslip_exists(), which asks the tracker for the
\* work items of row.get_issue_id().
CheckExists ==
    /\ pc = "exists"
    /\ \E r1 \in IssueReplies(_issue) :
        LET issue_id == get_issue_id(row, _issue, r1).v
        IN  /\ _issue' = issue(_issue, r1)
            /\ \E reply \in GetWorkItemsReplies(issue_id) :
                /\ calls' = Append(calls, Call("getWorkItems", issue_id, reply))
                /\ pc' = IF reply = "YouTrackException" THEN "YouTrackException"
                         ELSE IF timeslip_exists(row, getWorkItems(workItems, issue_id))
                         THEN "duplicate" ELSE "upload"
    /\ UNCHANGED <<rows, idx, ignore, response, workItems, count, total, run,
                   created, rowState, input, result>>

\* Lines 327-329: count += 1; row.save(); print("    uploaded timeslip").
Upload ==
    /\ pc = "upload"
    /\ count' = count + 1
    /\ \E r1 \in IssueReplies(_issue) :
        LET issue_id == get_issue_id(row, _issue, r1)
            timeslip == create_timeslip(row)
        IN  /\ _issue' = issue(_issue, r1)
            /\ IF Truthy(issue_id)
               THEN \E reply \in CreateWorkItemReplies(issue_id.v) :
                      /\ calls' = Append(calls,
                                         Call("createWorkItem", issue_id.v, reply))
                      /\ workItems' =
                           IF reply = "created"
                           THEN Append(workItems,
                                       StoredWorkItem(issue_id.v, timeslip))
                           ELSE workItems
                      /\ created' = IF reply = "created" THEN created + 1
                                     ELSE created
                      /\ IF reply = "YouTrackException"
                         THEN pc' = "YouTrackException" /\ UNCHANGED rowState
                         ELSE pc' = "for" /\ rowState' = "uploaded"
               ELSE /\ pc' = "for"
                    /\ rowState' = "uploaded"
                    /\ UNCHANGED <<calls, workItems, created>>
    /\ UNCHANGED <<rows, idx, ignore, response, total, run, input, result>>

\* Lines 331-332: "Timeslip for <issue id> (<timeslip_string>) already exists".
PrintDuplicate ==
    /\ pc = "duplicate"
    /\ \E r1 \in IssueReplies(_issue) : _issue' = issue(_issue, r1)
    /\ IF timeslip_string_raises(row)
       THEN pc' = "TypeError" /\ UNCHANGED rowState
       ELSE /\ pc' = "for"
            /\ rowState' = "duplicate"
    /\ UNCHANGED <<rows, idx, ignore, response, workItems, count, total, run,
                   created, calls, input, result>>

\* Line 336: "Added <count> timeslips out of <total>", after the last row.
Finish ==
    /\ pc = "for"
    /\ idx = Len(rows)
    /\ pc' = "done"
    /\ UNCHANGED <<rows, idx, ignore, _issue, response, workItems, count,
                   total, run, created, calls, rowState, input, result>>

\* The script is started again on the same input file; the tracker keeps
\* what it holds.
Rerun ==
    /\ pc \in {"done", "exit", "YouTrackException", "TypeError"}
    /\ run < MaxRuns
    /\ run' = run + 1
    /\ pc' = "connect"
    /\ idx' = 0
    /\ ignore' = FALSE
    /\ _issue' = None
    /\ response' = <<>>
    /\ created' = 0
    /\ calls' = <<>>
    /\ rowState' = "new"
    /\ UNCHANGED <<rows, workItems, count, total, input, result>>

Next ==
    \/ Connect
    \/ TakeRow
    \/ Lookup
    \/ Prompt1
    \/ Prompt2
    \/ While
    \/ PrintIgnored
    \/ CheckExists
    \/ Upload
    \/ PrintDuplicate
    \/ Finish
    \/ Rerun

Spec == Init /\ [][Next]_vars

-----------------------------------------------------------------------------
(* Properties of the driver.                                               *)

\* The tags text of row r contains "ignore" in some letter case.
TagsSayIgnore(r) ==
    Contains(Lowered(get_tags(r).v), <<"i","g","n","o","r","e">>)

CreateCalls == SelectSeq(calls, LAMBDA c : c.op = "createWorkItem")

\* The issue id the current row answers with: that of its cached issue, or
\* the one its text holds.
CurrentIssueId ==
    IF _issue.t = "Issue" THEN PyStr(_issue.id)
    ELSE get_issue_id_from_tags(get_issue_string(row))

\* C1: for a row whose tags contain "ignore" in any letter case the driver
\* makes no createWorkItem call, whatever issue id the row carries and
\* whether the tracker holds it or not, and the row ends ignored.
C1_IgnoredNeverUploaded ==
    (idx >= 1 /\ TagsSayIgnore(row)) =>
        /\ CreateCalls = <<>>
        /\ rowState \in {"new", "ignored"}
        /\ (pc \in {"for", "done"} => rowState = "ignored")

\* C1's case: a row tagged "Ignore A-1", whose issue the tracker holds, has
\* been processed to the end of the run.
C1_Witness ==
    /\ pc = "done"
    /\ get_tags(row).v = <<"I","g","n","o","r","e"," ","A","-","1">>
    /\ rowState = "ignored"
    /\ count = 0

\* C2: a row that is not ignored leaves the interactive resolution with an
\* issue id the tracker holds, so every getWorkItems and createWorkItem call
\* of the driver is for an issue the tracker holds.
C2_ResolvedIssueExists ==
    /\ (idx >= 1 /\ pc \in {"exists", "upload", "duplicate"}) =>
            (Truthy(CurrentIssueId) /\ CurrentIssueId.v \in TrackerIssues)
    /\ \A i \in 1..Len(calls) : calls[i].id \in TrackerIssues

\* C3: the tracker never holds two work items with the same issue,
\* duration, date and description: a row uploaded once is a duplicate when
\* it is processed again, later in the run or in a second run.
C3_NoWorkItemTwice ==
    \A i, j \in 1..Len(workItems) : i # j => workItems[i] # workItems[j]

\* C5: a tracker error during one row's getWorkItems or createWorkItem call
\* does not abort the run: the script never ends on an uncaught
\* YouTrackException.
C5_TrackerErrorDoesNotAbort == pc # "YouTrackException"

\* C10: at the end of a run the reported total is the number of input rows
\* and the reported count the number of work items the tracker created.
C10_CountIsCreated ==
    pc = "done" => (total = Len(rows) /\ count = created)

====
